---- MODULE Spec2Model ----
(***************************************************************************)
(* Command / response layer of the Agilent E4418 power meter driver        *)
(* (pymeasure/device/Agilent/E4418.py): the SYST:ERR? round trip           *)
(* (error_query), the decoder of device errors (error_handler.check), the  *)
(* post-command check (_error_check) and the timed zeroing operation.      *)
(*                                                                         *)
(* Text on the wire is a sequence of tokens.  A token is one character of  *)
(* the classes the parser looks at (white space, comma, double quote,      *)
(* sign, digit) or a run of other characters taken whole ("No error").     *)
(* The text a token sequence spells is Join(s), an ordinary string.        *)
(***************************************************************************)
EXTENDS Integers, Sequences, FiniteSets, TLC

VARIABLES
  op,        \* op[t]      : the public method thread t called last
  ch,        \* ch[t]      : the channel argument of zeroing
  pc,        \* pc[t]      : the statement thread t is at (source line), idle or done
  chk,       \* chk[t]     : which _error_check of zeroing is running (0: none, 1, 2)
  log,       \* log[t]     : what the current call did on the transport and the clock
  rets,      \* rets[t]    : the (err_num, err_msg) pairs error_query returned in this call
  ret,       \* ret[t]     : the line the last readline gave (local ret of error_query)
  outcome,   \* outcome[t] : how the call ended (returned, returned a value, raised)
  devIn,     \* commands sent and not yet executed by the instrument
  rx,        \* response lines not yet read
  queue,     \* the instrument's error queue (FIFO)
  busy,      \* the instrument is running its zeroing routine
  q0,        \* history: the error queue at start
  entered,   \* history: every entry that ever entered the error queue, in order
  popped,    \* history: what each executed SYST:ERR? took from the queue
  hist,      \* history: every pair error_query returned, in order
  calls,     \* history: number of calls made
  qAtCall,   \* qAtCall[t]   : the error queue when the current call started
  popAtCall, \* popAtCall[t] : Len(popped) when the current call started
  readFor,   \* readFor[t]   : the thread whose query produced the line t read last
  darg,      \* argument pair of a direct call of error_handler.check
  dout       \* its outcome

vars == <<op, ch, pc, chk, log, rets, ret, outcome, devIn, rx, queue, busy,
          q0, entered, popped, hist, calls, qAtCall, popAtCall, readFor, darg, dout>>

thread_vars == <<op, ch, pc, chk, log, rets, ret, outcome, qAtCall, popAtCall, readFor>>
device_vars == <<queue, busy, entered, popped>>
decode_vars == <<darg, dout>>

----------------------------------------------------------------------------
\* Bounds of the model.

MaxQueue == 2       \* longest error queue at start
MaxCalls == 3       \* calls made in one behaviour
MaxJunkLen == 3     \* longest arbitrary reply line (in tokens)
MaxConcQueue == 1   \* longest error queue at start, two threads
MaxConcCalls == 2   \* calls made in one behaviour, two threads

Threads == {1, 2}
Channels == {1, 2, 3}

----------------------------------------------------------------------------
\* Python string primitives, on token sequences.

WhiteSpace == {" ", "\n"}
Digits == <<"0", "1", "2", "3", "4", "5", "6", "7", "8", "9">>
DigitSet == {Digits[i] : i \in 1..10}
DigitVal(c) == (CHOOSE i \in 1..10 : Digits[i] = c) - 1

RECURSIVE Join(_)
Join(s) == IF s = <<>> THEN "" ELSE Head(s) \o Join(Tail(s))

RECURSIVE lstrip(_, _)
lstrip(s, chars) ==
  IF s # <<>> /\ Head(s) \in chars THEN lstrip(Tail(s), chars) ELSE s

RECURSIVE rstrip(_, _)
rstrip(s, chars) ==
  IF s # <<>> /\ s[Len(s)] \in chars THEN rstrip(SubSeq(s, 1, Len(s) - 1), chars) ELSE s

\* str.strip(): with no argument white space is removed, else the given characters
strip(s, chars) == rstrip(lstrip(s, chars), chars)

\* str.split(sep): always at least one field; empty fields are kept
RECURSIVE split(_, _)
split(s, sep) ==
  IF \A i \in 1..Len(s) : s[i] # sep
  THEN <<s>>
  ELSE LET i == CHOOSE j \in 1..Len(s) : s[j] = sep /\ \A k \in 1..(j - 1) : s[k] # sep
       IN  <<SubSeq(s, 1, i - 1)>> \o split(SubSeq(s, i + 1, Len(s)), sep)

RECURSIVE DecValue(_)
DecValue(s) == IF s = <<>> THEN 0 ELSE 10 * DecValue(SubSeq(s, 1, Len(s) - 1)) + DigitVal(s[Len(s)])

\* int(str): white space around, an optional sign, one or more decimal digits
int_body(s) == LET b == strip(s, WhiteSpace)
               IN  IF b # <<>> /\ Head(b) \in {"+", "-"} THEN Tail(b) ELSE b
int_ok(s) == LET d == int_body(s) IN d # <<>> /\ \A i \in 1..Len(d) : d[i] \in DigitSet
int(s) == LET b == strip(s, WhiteSpace)
          IN  IF Head(b) = "-" THEN 0 - DecValue(int_body(s)) ELSE DecValue(int_body(s))

\* '*' * n
RECURSIVE Stars(_)
Stars(n) ==
  IF n <= 0 THEN ""
  ELSE LET half == Stars(n \div 2)
       IN  IF n % 2 = 0 THEN half \o half ELSE half \o half \o "*"

----------------------------------------------------------------------------
\* How a call ends.

Pending == [kind |-> "pending", exc |-> "", num |-> 0, msg |-> "", report |-> <<>>]
Return == [kind |-> "return", exc |-> "", num |-> 0, msg |-> "", report |-> <<>>]
Value(num, msg) == [kind |-> "value", exc |-> "", num |-> num, msg |-> msg, report |-> <<>>]
Raise(exc, report) == [kind |-> "raise", exc |-> exc, num |-> 0, msg |-> "", report |-> report]

----------------------------------------------------------------------------
\* error_handler: the catalog and the decoder.

error_item(num, msg, txt) == [num |-> num, msg |-> msg, txt |-> txt]

error_list ==
  <<
    error_item(0, "No error", ""),
    error_item(-101, "Invalid character", "An invalid character was found in the command string. You may have inserted a character such as #, $ or % in the command header or within a parameter. For example, LIM:LOW O#."),
    error_item(-102, "Syntax error", "Invalid syntax was found in the command string. For example, LIM:CLE:AUTO, 1 or LIM:CLE:AUTO 1."),
    error_item(-103, "Invalid separator", "An invalid separator was found in the command string. You may have used a comma instead of a colon, semicolon or blank space; or you may have used a blank space instead of a comma. For example, OUTP:ROSC,1."),
    error_item(-105, "GET not allowed", "A Group Execute Trigger (GET) is not allowed within a command string."),
    error_item(-108, "Parameter not allowed", "More parameters were received than expected for the command. You may have entered an extra parameter or added a parameter to a command that does not accept a parameter. For example, CAL 10."),
    error_item(-109, "Missing parameter", "Fewer parameters were received than expected for the command. You omitted one or more parameters that are required for this command. For example, AVER:COUN."),
    error_item(-112, "Program mnemonic too long", "A command header was received which contained more than the maximum 12 characters allowed. For example, SENSeAVERageCOUNt 8."),
    error_item(-113, "Undefined header", "A command was received that is not valid for this power meter. You may have misspelled the command, it may not be a valid command or you may have the wrong interface selected. If you are using the short form of the command, remember that it may contain up to four letters. For example, TRIG:SOUR IMM."),
    error_item(-121, "Invalid character in number", "An invalid character was found in the number specified for a parameter value. For example, SENS:AVER:COUN 128#H."),
    error_item(-123, "Exponent too large", "A numeric parameter was found whose exponent was larger than 32,000. For example, SENS:COUN 1E34000."),
    error_item(-124, "Too many digits", "A numeric parameter was found whose mantissa contained more than 255 digits, excluding leading zeros."),
    error_item(-128, "Numeric data not allowed", "A numeric value was received within a command which does not accept a numeric value. For example, MEM:CLE 24."),
    error_item(-131, "Invalid suffix", "A suffix was incorrectly specified for a numeric parameter. You may have misspelled the suffix. For example, SENS:FREQ 200KZ."),
    error_item(-134, "Suffix too long", "A suffix used contained more than 12 characters. For example, SENS:FREQ 2MHZZZZZZZZZZZ."),
    error_item(-138, "Suffix not allowed", "A suffix was received following a numeric parameter which does not accept a suffix. For example, INIT:CONT 0Hz."),
    error_item(-148, "Character data not allowed", "A discrete parameter was received but a character string or a numeric parameter was expected. Check the list of parameters to verify that you have used a valid parameter type. For example, MEM:CLE CUSTOM_1."),
    error_item(-151, "Invalid string data", "An invalid string was received. Check to see if you have enclosed the character string in single or double quotes. For example, MEM:CLE \"CUSTOM_1."),
    error_item(-158, "String data not allowed", "A character string was received but is not allowed for the command. Check the list of parameters to verify that you have used a valid parameter type. For example, LIM:STAT `ON'."),
    error_item(-161, "Invalid block data", "A block data element was expected but was invalid for some reason. For example, *DDT #15FET. The 5 in the string indicates that 5 characters should follow, whereas in this example there are only 3."),
    error_item(-168, "Block data not allowed", "A legal block data element was encountered but not allowed by the power meter at this point. For example SYST:LANG #15FETC?."),
    error_item(-178, "Expression data not allowed", "A legal expression data was encountered but not allowed by the power meter at this point. For example SYST:LANG (5+2)."),
    error_item(-211, "Trigger ignored", "Indicates that <GET> or *TRG or TRIG:IMM was received and recognized by the device but was ignored because the power meter was not in the wait for trigger state."),
    error_item(-213, "Init ignored", "Indicates that a request for a measurement initiation was ignored as the power meter was already initiated. For example, INIT:CONT ON INIT."),
    error_item(-214, "Trigger deadlock", "TRIG:SOUR was set to HOLD or BUS and a READ? or MEASure? was attempted, expecting TRIG:SOUR to be set to IMMediate."),
    error_item(-220, "Parameter error;Frequency list must be in ascending order.", "Indicates that the frequencies entered using the MEMory:TABLe:FREQuency command are not in ascending order."),
    error_item(-221, "Settings conflict", "This command occurs under a variety of conflicting conditions. The following list gives a few examples of where this error may occur: * If the READ? parameters do not match the current settings. * If you are in fast mode and attempting to switch on for example, averaging, duty cycle or limits. * Trying to clear a sensor calibration table when none is selected."),
    error_item(-221, "Settings conflict;DTR/DSR not available on RS422", "DTR/DSR is only available on the RS232 interface."),
    error_item(-222, "Data out of range", "A numeric parameter value is outside the valid range for the command. For example, SENS:FREQ 2KHZ."),
    error_item(-224, "Illegal parameter value", "A discrete parameter was received which was not a valid choice for the command. You may have used an invalid parameter choice. For example, TRIG:SOUR EXT."),
    error_item(-226, "Lists not same length", "This occurs when SENSe:CORRection:CSET[1]|CSET2:STATe is set to ON and the frequency and calibration/offset lists do not correspond in length."),
    error_item(-230, "Data corrupt or stale", "This occurs when a FETC? is attempted and either a reset has been received or the power meter state has changed such that the current measurement is invalidated (for example, a change of frequency setting or triggering conditions)."),
    error_item(-230, "Data corrupt or stale;Please zero and calibrate Channel A", "When CAL[1|2]:RCAL is set to ON and the sensor currently connected to channel A has not been zeroed and calibrated, then any command which would normally return a measurement result (for example FETC?, READ? or MEAS?) will generate this error message."),
    error_item(-230, "Data corrupt or stale;Please zero Channel A", "When CAL[1|2]:RCAL is set to ON and the sensor currently connected to channel A has not been zeroed, then any command which would normally return a measurement result (for example FETC?, READ? or MEAS?) will generate this error message."),
    error_item(-230, "Data corrupt or stale;Please calibrate Channel A", "When CAL[1|2]:RCAL is set to ON and the sensor currently connected to channel A has not been calibrated, then any command which would normally return a measurement result (for example FETC?, READ? or MEAS?) will generate this error message"),
    error_item(-231, "Data questionable;CAL ERROR", "Power meter calibration failed. The most likely cause is attempting to calibrate without applying a 1 mW power to the power sensor."),
    error_item(-231, "Data questionable;Input Overload", "The power input to Channel A exceeds the power sensor's maximum range."),
    error_item(-231, "Data questionable;Lower window log error", "This indicates that a difference measurement in the lower window has given a negative result when the units of measurement were logarithmic."),
    error_item(-231, "Data questionable;Upper window log error", "This indicates that a difference measurement in the upper window has given a negative result when the units of measurement were logarithmic."),
    error_item(-231, "Data questionable;ZERO ERROR", "Power meter zeroing failed. The most likely cause is attempting to zero when some power signal is being applied to the power sensor."),
    error_item(-241, "Hardware missing", "The power meter is unable to execute the command because either no power sensor is connected or it expects an Agilent E-Series or N8480 Series power sensor, and one is not connected."),
    error_item(-310, "System error;Dty Cyc may impair accuracy with ECP sensor", "This indicates that the sensor connected is for use with CW signals only."),
    error_item(-310, "System error;Sensor EEPROM Read Failed - critical data not found or unreadable", "This indicates a failure with your Agilent E-Series or N8480 Series power sensor. Refer to your power sensor manual for details on returning it for repair."),
    error_item(-310, "System error;Sensor EEPROM Read Completed OK but optional data block(s) not found or unreadable", "This indicates a failure with your Agilent E-Series or N8480 Series power sensor. Refer to your power sensor manual for details on returning it for repair."),
    error_item(-310, "System error;Sensor EEPROM Read Failed - unknown EEPROM table format", "This indicates a failure with your Agilent E-Series or N8480 Series power sensor. Refer to your power sensor manual for details on returning it for repair."),
    error_item(-310, "System error;Sensor EEPROM < > data not found or unreadable", "Where < > refers to the sensor data block covered, for example, Linearity, Temp - Comp (temperature compensation). This indicates a failure with your Agilent E-Series or N8480 Series power sensor. Refer to your power sensor manual for details on returning it for repair."),
    error_item(-310, "System error;Option 001 Battery charger fault", "The power meter is connected to an AC power source, the battery is not fully charged and it is not charging."),
    error_item(-310, "System error;Sensors connected to both front and rear inputs. You cannot connect two power sensors to the one channel input. In this instance, the power", "meter detects power sensors connected to both its front and rear channel inputs."),
    error_item(-320, "Out of memory", "The power meter required more memory than was available to run an internal operation."),
    error_item(-330, "Self-test Failed;", "The -330, \"Self-test Failed\" errors indicate that you have a problem with your power meter. Refer to \"Contacting Agilent Technologies\" on page 103 for details of what to do with your faulty power meter."),
    error_item(-330, "Self-test Failed;Measurement Channel Fault", "Refer to \"Measurement Assembly\" on page 98 if you require a description of the Measurement Assembly test."),
    error_item(-330, "Self-test Failed;Option 001 Battery requires replacement", "The Option 001 battery is not charging to a satisfactory level and should be replaced."),
    error_item(-330, "Self-test Failed;RAM Battery Fault", "Refer to \"RAM Battery\" on page 98 if you require a description of the battery test. "),
    error_item(-330, "Self-test Failed;Calibrator Fault", "Refer to \"Calibrator\" on page 99 if you require a description of the calibrator test. "),
    error_item(-330, "Self-test Failed;ROM Check Failed", "Refer to \"ROM Checksum\" on page 98 if you require a description of the ROM Checksum test. "),
    error_item(-330, "Self-test Failed;RAM Check Failed", "Refer to \"RAM\" on page 98 if you require a description of the RAM test. "),
    error_item(-330, "Self-test Failed;Display Assy. Fault", "Refer to \"Display\" on page 99 if you require a description of the Display test. "),
    error_item(-330, "Self-test Failed;Confidence Check Fault", "Refer to \"Confidence Check\" on page 96 if you require a description of this test. "),
    error_item(-330, "Self-test Failed;Serial Interface Fault", "Refer to \"Serial Interface\" on page 99 if you require a description of this test. "),
    error_item(-350, "Queue overflow", "The error queue is full and another error has occurred which could not be recorded."),
    error_item(-361, "Parity error in program", "The serial port receiver has detected a parity error and consequently, data integrity cannot be guaranteed."),
    error_item(-362, "Framing error in program", "The serial port receiver has detected a framing error and consequently, data integrity cannot be guaranteed."),
    error_item(-363, "Input buffer overrun", "The serial port receiver has been overrun and consequently, data has been lost."),
    error_item(-410, "Query INTERRUPTED", "A command was received which sends data to the output buffer, but the output buffer contained data from a previous command (the previous data is not overwritten). The output buffer is cleared when power has been off or after *RST (reset) command has been executed."),
    error_item(-420, "Query UNTERMINATED", "The power meter was addressed to talk (that is, to send data over the interface) but a command has not been received which sends data to the output buffer. For example, you may have executed a CONFigure command (which does not generate data) and then attempted to read data from the remote interface."),
    error_item(-430, "Query DEADLOCKED", "A command was received which generates too much data to fit in the output buffer and the input buffer is also full. Command execution continues but data is lost. -440 Query UNTERMINATED after indefinite response The *IDN? command must be the last query command within a command string.")
  >>

\* the report of a catalog match: header, rule, 'msg (num)', rule, txt
check_matched(e) ==
  LET emsg == e.msg \o " (" \o ToString(e.num) \o ")"
  IN  <<"Power meter returned Error message.", Stars(Len(emsg)), emsg, Stars(Len(emsg)), e.txt>>

\* a decoder that drops the raw message of an unknown error
check_unmatched_generic(num, msg) ==
  LET emsg == "Unknown error (" \o ToString(num) \o ")"
  IN  <<"Power meter returned Error message.", Stars(Len(emsg) + 1), emsg, Stars(Len(emsg) + 1)>>

\* the report of an unknown message: header, rule, 'msg (num)', rule; emsg ends
\* in the line break, which the rules count
check_unmatched(num, msg) ==
  LET emsg == msg \o " (" \o ToString(num) \o ")"
  IN  <<"Power meter returned Error message.", Stars(Len(emsg) + 1), emsg, Stars(Len(emsg) + 1)>>

\* a decoder that raises for catalogued messages only
check_known_only(num, msg) ==
  IF num # 0 /\ \E i \in 1..Len(error_list) : error_list[i].msg = msg
  THEN Raise("StandardError", check_unmatched(num, msg))
  ELSE Return

\* error_handler.check(num, msg): the first entry whose msg equals msg decides
check(num, msg) ==
  IF num = 0 THEN Return
  ELSE IF \E i \in 1..Len(error_list) : error_list[i].msg = msg
       THEN LET i == CHOOSE j \in 1..Len(error_list) :
                       /\ error_list[j].msg = msg
                       /\ \A k \in 1..(j - 1) : error_list[k].msg # msg
            IN  Raise("StandardError", check_matched(error_list[i]))
       ELSE Raise("StandardError", check_unmatched(num, msg))

----------------------------------------------------------------------------
\* E4418.error_query, from the line read on: lines 55-58.

error_query_parse(line) ==
  LET fields == split(strip(line, WhiteSpace), ",")
  IN  IF ~int_ok(fields[1]) THEN Raise("ValueError", <<>>)
      ELSE IF Len(fields) < 2 THEN Raise("IndexError", <<>>)
      ELSE Value(int(fields[1]), Join(strip(fields[2], {"\""})))

----------------------------------------------------------------------------
\* The instrument, as the docstring of error_query describes it: errors enter a
\* FIFO queue, each SYST:ERR? removes the oldest, an empty queue answers
\* +0,"No error", *CLS clears the queue.

entry(num, toks) == [num |-> num, toks |-> toks]

NoError == entry(0, <<"No error">>)
IllegalParameter == entry(-224, <<"Illegal parameter value">>)
ZeroError == entry(-231, <<"Data questionable;ZERO ERROR">>)
SensorsBoth ==
  entry(-310, <<"System error;Sensors connected to both front and rear inputs. You cannot connect two power sensors to the one channel input. In this instance", ",", " ", "the power">>)
FirmwareFault == entry(-999, <<"Firmware fault">>)

DeviceEntries == {IllegalParameter, ZeroError, SensorsBoth, FirmwareFault}

RECURSIVE DecToks(_)
DecToks(n) == IF n < 10 THEN <<Digits[n + 1]>> ELSE DecToks(n \div 10) \o <<Digits[(n % 10) + 1]>>

\* the instrument writes a signed decimal
IntToks(n) == IF n < 0 THEN <<"-">> \o DecToks(0 - n) ELSE <<"+">> \o DecToks(n)

\* <int>,"<message>"
ReplyLine(e) == IntToks(e.num) \o <<",", "\"">> \o e.toks \o <<"\"">>

BoundedSeq(S, n) == UNION {[1..k -> S] : k \in 0..n}

\* the transport: send queues the text for the instrument
com_send(t, text) == Append(devIn, [text |-> text, from |-> t])

DeviceQuery ==
  /\ devIn # <<>>
  /\ Head(devIn).text = "SYST:ERR?"
  /\ devIn' = Tail(devIn)
  /\ LET e == IF queue = <<>> THEN NoError ELSE Head(queue)
     IN  /\ rx' = Append(rx, [line |-> ReplyLine(e), for |-> Head(devIn).from])
         /\ popped' = Append(popped, e)
  /\ queue' = IF queue = <<>> THEN queue ELSE Tail(queue)
  /\ UNCHANGED <<busy, entered, q0, hist, calls>>
  /\ UNCHANGED thread_vars
  /\ UNCHANGED decode_vars

\* CALn:ZERO:AUTO ONCE starts the zeroing routine; the instrument may refuse the
\* command with an error.  *CLS clears the error queue.
DeviceCommand ==
  /\ devIn # <<>>
  /\ Head(devIn).text # "SYST:ERR?"
  /\ devIn' = Tail(devIn)
  /\ IF Head(devIn).text = "*CLS"
     THEN /\ queue' = <<>>
          /\ UNCHANGED <<busy, entered>>
     ELSE \E refused \in BOOLEAN :
            /\ queue' = IF refused THEN Append(queue, IllegalParameter) ELSE queue
            /\ entered' = IF refused THEN Append(entered, IllegalParameter) ELSE entered
            /\ busy' = ~refused
  /\ UNCHANGED <<rx, popped, q0, hist, calls>>
  /\ UNCHANGED thread_vars
  /\ UNCHANGED decode_vars

\* the zeroing routine ends, with or without -231 ZERO ERROR
DeviceZeroDone ==
  /\ busy
  /\ busy' = FALSE
  /\ \E failed \in BOOLEAN :
       /\ queue' = IF failed THEN Append(queue, ZeroError) ELSE queue
       /\ entered' = IF failed THEN Append(entered, ZeroError) ELSE entered
  /\ UNCHANGED <<devIn, rx, popped, q0, hist, calls>>
  /\ UNCHANGED thread_vars
  /\ UNCHANGED decode_vars

----------------------------------------------------------------------------
\* The driver.  A thread calls one public method at a time; pc is the source
\* line it is at.

Callable(t) == pc[t] \in {"idle", "done"} /\ calls < MaxCalls

Enter(t, o, c, at) ==
  /\ op' = [op EXCEPT ![t] = o]
  /\ ch' = [ch EXCEPT ![t] = c]
  /\ pc' = [pc EXCEPT ![t] = at]
  /\ chk' = [chk EXCEPT ![t] = 0]
  /\ log' = [log EXCEPT ![t] = <<>>]
  /\ rets' = [rets EXCEPT ![t] = <<>>]
  /\ ret' = [ret EXCEPT ![t] = <<>>]
  /\ outcome' = [outcome EXCEPT ![t] = Pending]
  /\ qAtCall' = [qAtCall EXCEPT ![t] = queue]
  /\ popAtCall' = [popAtCall EXCEPT ![t] = Len(popped)]
  /\ readFor' = [readFor EXCEPT ![t] = t]
  /\ calls' = calls + 1
  /\ UNCHANGED <<devIn, rx, q0, hist>>
  /\ UNCHANGED device_vars
  /\ UNCHANGED decode_vars

Call_error_query(t) == Callable(t) /\ Enter(t, "error_query", 1, "l53")

Call_error_check(t) == Callable(t) /\ Enter(t, "_error_check", 1, "l53")

\* def zeroing(self, ch=1): no local validation of ch
Call_zeroing(t, c) == Callable(t) /\ Enter(t, "zeroing", c, "l90")

\* line 90: 'CAL%d:ZERO:AUTO ONCE'%(ch)
zeroing_command(c) == "CAL" \o ToString(c) \o ":ZERO:AUTO ONCE"

\* a zeroing that clears the error queue before its command
Send90_cls(t) ==
  /\ pc[t] = "l90"
  /\ devIn' = Append(com_send(t, "*CLS"), [text |-> zeroing_command(ch[t]), from |-> t])
  /\ log' = [log EXCEPT ![t] = Append(@, zeroing_command(ch[t]))]
  /\ pc' = [pc EXCEPT ![t] = "l53"]
  /\ chk' = [chk EXCEPT ![t] = 1]
  /\ UNCHANGED <<op, ch, rets, ret, outcome, qAtCall, popAtCall, readFor>>
  /\ UNCHANGED <<rx, q0, hist, calls>>
  /\ UNCHANGED device_vars
  /\ UNCHANGED decode_vars

\* line 90: self.com.send('CAL%d:ZERO:AUTO ONCE'%(ch))
Send90(t) ==
  /\ pc[t] = "l90"
  /\ devIn' = com_send(t, zeroing_command(ch[t]))
  /\ log' = [log EXCEPT ![t] = Append(@, zeroing_command(ch[t]))]
  /\ pc' = [pc EXCEPT ![t] = "l53"]
  /\ chk' = [chk EXCEPT ![t] = 1]
  /\ UNCHANGED <<op, ch, rets, ret, outcome, qAtCall, popAtCall, readFor>>
  /\ UNCHANGED <<rx, q0, hist, calls>>
  /\ UNCHANGED device_vars
  /\ UNCHANGED decode_vars

\* an error_query that sends its query twice
Send53_twice(t) ==
  /\ pc[t] = "l53"
  /\ devIn' = Append(com_send(t, "SYST:ERR?"), [text |-> "SYST:ERR?", from |-> t])
  /\ log' = [log EXCEPT ![t] = Append(@, "SYST:ERR?")]
  /\ pc' = [pc EXCEPT ![t] = "l54"]
  /\ UNCHANGED <<op, ch, chk, rets, ret, outcome, qAtCall, popAtCall, readFor>>
  /\ UNCHANGED <<rx, q0, hist, calls>>
  /\ UNCHANGED device_vars
  /\ UNCHANGED decode_vars

\* line 53: self.com.send('SYST:ERR?')
Send53(t) ==
  /\ pc[t] = "l53"
  /\ devIn' = com_send(t, "SYST:ERR?")
  /\ log' = [log EXCEPT ![t] = Append(@, "SYST:ERR?")]
  /\ pc' = [pc EXCEPT ![t] = "l54"]
  /\ UNCHANGED <<op, ch, chk, rets, ret, outcome, qAtCall, popAtCall, readFor>>
  /\ UNCHANGED <<rx, q0, hist, calls>>
  /\ UNCHANGED device_vars
  /\ UNCHANGED decode_vars

\* a zeroing that waits whatever its first check found
zeroing_next_waits(k, c) ==
  IF k = 1 THEN "l92"
  ELSE IF c.kind = "raise" THEN "raise"
  ELSE "return"

\* zeroing, lines 91-94: where it goes after its k-th _error_check ended as c
zeroing_next(k, c) ==
  IF c.kind = "raise" THEN "raise"
  ELSE IF k = 1 THEN "l92"
  ELSE "return"

\* lines 17-20: _error_check, given what error_query returned
error_check(q) == check(q.num, q.msg)

\* line 54 (the blocking readline) and what follows it without touching the
\* transport: the rest of error_query, the decoder, the return to the caller
Readline54(t) ==
  /\ pc[t] = "l54"
  /\ rx # <<>>
  /\ rx' = Tail(rx)
  /\ ret' = [ret EXCEPT ![t] = Head(rx).line]
  /\ readFor' = [readFor EXCEPT ![t] = Head(rx).for]
  /\ log' = [log EXCEPT ![t] = Append(@, "readline")]
  /\ LET q == error_query_parse(Head(rx).line)
         got == [num |-> q.num, msg |-> q.msg]
     IN  IF q.kind = "raise"
         THEN /\ outcome' = [outcome EXCEPT ![t] = q]
              /\ pc' = [pc EXCEPT ![t] = "done"]
              /\ UNCHANGED <<rets, hist>>
         ELSE /\ rets' = [rets EXCEPT ![t] = Append(@, got)]
              /\ hist' = Append(hist, got)
              /\ IF op[t] = "error_query"
                 THEN /\ outcome' = [outcome EXCEPT ![t] = q]
                      /\ pc' = [pc EXCEPT ![t] = "done"]
                 ELSE LET c == error_check(q)
                          to == IF op[t] = "zeroing" THEN zeroing_next(chk[t], c)
                                ELSE IF c.kind = "raise" THEN "raise" ELSE "return"
                      IN  /\ outcome' = [outcome EXCEPT ![t] =
                                           IF to = "raise" THEN c
                                           ELSE IF to = "return" THEN Return
                                           ELSE @]
                          /\ pc' = [pc EXCEPT ![t] =
                                      IF to \in {"raise", "return"} THEN "done" ELSE to]
  /\ UNCHANGED <<op, ch, chk, qAtCall, popAtCall>>
  /\ UNCHANGED <<devIn, q0, calls>>
  /\ UNCHANGED device_vars
  /\ UNCHANGED decode_vars

\* a zeroing that returns after the wait, without the second check
Sleep92_returns(t) ==
  /\ pc[t] = "l92"
  /\ log' = [log EXCEPT ![t] = Append(@, "sleep(10)")]
  /\ pc' = [pc EXCEPT ![t] = "done"]
  /\ outcome' = [outcome EXCEPT ![t] = Return]
  /\ UNCHANGED <<op, ch, chk, rets, ret, qAtCall, popAtCall, readFor>>
  /\ UNCHANGED <<devIn, rx, q0, hist, calls>>
  /\ UNCHANGED device_vars
  /\ UNCHANGED decode_vars

\* line 92: time.sleep(10), then the second _error_check
Sleep92(t) ==
  /\ pc[t] = "l92"
  /\ log' = [log EXCEPT ![t] = Append(@, "sleep(10)")]
  /\ pc' = [pc EXCEPT ![t] = "l53"]
  /\ chk' = [chk EXCEPT ![t] = 2]
  /\ UNCHANGED <<op, ch, rets, ret, outcome, qAtCall, popAtCall, readFor>>
  /\ UNCHANGED <<devIn, rx, q0, hist, calls>>
  /\ UNCHANGED device_vars
  /\ UNCHANGED decode_vars

----------------------------------------------------------------------------
\* Specifications.

InitThreads ==
  /\ op = [t \in Threads |-> "none"]
  /\ ch = [t \in Threads |-> 1]
  /\ pc = [t \in Threads |-> "idle"]
  /\ chk = [t \in Threads |-> 0]
  /\ log = [t \in Threads |-> <<>>]
  /\ rets = [t \in Threads |-> <<>>]
  /\ ret = [t \in Threads |-> <<>>]
  /\ outcome = [t \in Threads |-> Pending]
  /\ qAtCall = [t \in Threads |-> <<>>]
  /\ popAtCall = [t \in Threads |-> 0]
  /\ readFor = [t \in Threads |-> t]
  /\ devIn = <<>>
  /\ rx = <<>>
  /\ busy = FALSE
  /\ popped = <<>>
  /\ hist = <<>>
  /\ calls = 0

InitDecodeIdle ==
  /\ darg = [num |-> 0, msg |-> ""]
  /\ dout = Pending

\* one caller, the instrument of the docstring
Init ==
  /\ InitThreads
  /\ InitDecodeIdle
  /\ queue \in BoundedSeq(DeviceEntries, MaxQueue)
  /\ q0 = queue
  /\ entered = queue

Next ==
  \/ Call_error_query(1)
  \/ Call_error_check(1)
  \/ \E c \in Channels : Call_zeroing(1, c)
  \/ Send90(1)
  \/ Send53(1)
  \/ Readline54(1)
  \/ Sleep92(1)
  \/ DeviceQuery
  \/ DeviceCommand
  \/ DeviceZeroDone

Spec == Init /\ [][Next]_vars

\* two threads calling methods of the same object, with nothing between them:
\* the class holds no lock
InitConc ==
  /\ InitThreads
  /\ InitDecodeIdle
  /\ queue \in BoundedSeq(DeviceEntries, MaxConcQueue)
  /\ q0 = queue
  /\ entered = queue

NextConc ==
  \/ \E t \in Threads : calls < MaxConcCalls /\ Call_error_query(t)
  \/ \E t \in Threads : calls < MaxConcCalls /\ Call_error_check(t)
  \/ \E t \in Threads : \E c \in Channels : calls < MaxConcCalls /\ Call_zeroing(t, c)
  \/ \E t \in Threads : Send90(t)
  \/ \E t \in Threads : Send53(t)
  \/ \E t \in Threads : Readline54(t)
  \/ \E t \in Threads : Sleep92(t)
  \/ DeviceQuery
  \/ DeviceCommand
  \/ DeviceZeroDone

SpecConc == InitConc /\ [][NextConc]_vars

----------------------------------------------------------------------------
\* error_query and _error_check against arbitrary reply lines: the instrument
\* is replaced by one that answers SYST:ERR? with any line of TestLines.

sp(b) == IF b THEN <<" ">> ELSE <<>>

\* a line of the wire form <int>,"<message>", with optional white space at the
\* start of the line, before the comma, after it, inside the opening quote,
\* inside the closing quote and at the end of the line
WireLine(num, toks, f) ==
  sp(f[1]) \o IntToks(num) \o sp(f[2]) \o <<",">> \o sp(f[3]) \o <<"\"">>
    \o sp(f[4]) \o toks \o sp(f[5]) \o <<"\"">> \o sp(f[6])

WireCodes == {0, -224, 5}
WireMsgs == {<<"No error.">>, <<"Illegal parameter value">>, <<"Firmware fault">>}
WireFlags == [1..6 -> BOOLEAN]
WireLines == {WireLine(n, m, f) : n \in WireCodes, m \in WireMsgs, f \in WireFlags}

JunkAlphabet == {" ", ",", "\"", "-", "1", "x"}
JunkLines == BoundedSeq(JunkAlphabet, MaxJunkLen)

TestLines == WireLines \cup JunkLines \cup {ReplyLine(e) : e \in DeviceEntries \cup {NoError}}

WireReply ==
  /\ devIn # <<>>
  /\ Head(devIn).text = "SYST:ERR?"
  /\ devIn' = Tail(devIn)
  /\ \E line \in TestLines : rx' = Append(rx, [line |-> line, for |-> Head(devIn).from])
  /\ UNCHANGED <<q0, hist, calls>>
  /\ UNCHANGED thread_vars
  /\ UNCHANGED device_vars
  /\ UNCHANGED decode_vars

InitWire ==
  /\ InitThreads
  /\ InitDecodeIdle
  /\ queue = <<>>
  /\ q0 = <<>>
  /\ entered = <<>>

\* one call per behaviour
NextWire ==
  \/ calls = 0 /\ Call_error_query(1)
  \/ calls = 0 /\ Call_error_check(1)
  \/ Send53(1)
  \/ WireReply
  \/ Readline54(1)

SpecWire == InitWire /\ [][NextWire]_vars

----------------------------------------------------------------------------
\* error_handler.check called directly, on every pair of DecodeCodes and
\* DecodeMsgs.

CatalogCodes == {error_list[i].num : i \in 1..Len(error_list)}
CatalogMsgs == {error_list[i].msg : i \in 1..Len(error_list)}

DecodeCodes == CatalogCodes \cup {5, -999}
DecodeMsgs == CatalogMsgs \cup {"", "No error.", "Firmware fault"}

InitDecode ==
  /\ InitThreads
  /\ queue = <<>>
  /\ q0 = <<>>
  /\ entered = <<>>
  /\ darg \in [num : DecodeCodes, msg : DecodeMsgs]
  /\ dout = Pending

Decode ==
  /\ dout = Pending
  /\ dout' = check(darg.num, darg.msg)
  /\ UNCHANGED darg
  /\ UNCHANGED <<devIn, rx, q0, hist, calls>>
  /\ UNCHANGED thread_vars
  /\ UNCHANGED device_vars

NextDecode == Decode

SpecDecode == InitDecode /\ [][NextDecode]_vars

----------------------------------------------------------------------------
\* Properties.

Done(t, o) == op[t] = o /\ pc[t] = "done"

ZeroingFailedAtFirstCheck(t) ==
  /\ pc[t] = "done"
  /\ outcome[t].kind = "raise"
  /\ log[t] = <<zeroing_command(ch[t]), "SYST:ERR?", "readline">>

\* C1: in zeroing, once the first error check has read a non-zero code the call
\* has failed: it raised, the wait was not entered and no second SYST:ERR? was
\* sent (the call did the command, one query and one readline, nothing else).
C1_FirstCheckFailureStops ==
  \A t \in Threads :
    (op[t] = "zeroing" /\ Len(rets[t]) >= 1 /\ rets[t][1].num # 0)
      => ZeroingFailedAtFirstCheck(t)

C1_Witness ==
  /\ op[1] = "zeroing"
  /\ ch[1] = 2
  /\ Len(rets[1]) = 1
  /\ rets[1][1].num = -224
  /\ q0 = <<>>
  /\ pc[1] = "done"

\* C2: zeroing returns normally only after two error checks that both read
\* code 0, and then it did, once each and in this order: the zero command, the
\* query and readline of the first check, the wait, the query and readline of
\* the second check.
C2_SuccessIsOneFullPass ==
  \A t \in Threads :
    (Done(t, "zeroing") /\ outcome[t].kind = "return")
      => /\ Len(rets[t]) = 2
         /\ rets[t][1].num = 0
         /\ rets[t][2].num = 0
         /\ log[t] = <<zeroing_command(ch[t]), "SYST:ERR?", "readline",
                       "sleep(10)", "SYST:ERR?", "readline">>

C2_Witness ==
  /\ Done(1, "zeroing")
  /\ outcome[1].kind = "return"
  /\ Len(log[1]) = 6

\* C3: the decoder returns normally exactly when the code is 0, whatever the
\* message; for every other code it raises one StandardError, whether or not
\* the message is in the catalog.
C3_FailsIffNonZero ==
  dout # Pending
    => /\ dout.kind \in {"return", "raise"}
       /\ (dout.kind = "return") <=> (darg.num = 0)
       /\ darg.num # 0 => dout.exc = "StandardError" /\ Len(dout.report) >= 4

C3_Witness ==
  /\ dout.kind = "raise"
  /\ darg.num = -999
  /\ darg.msg = "Firmware fault"

\* C4: when the message of a non-zero code matches a catalog entry, the
\* failure displays the code the device reported, not the code stored in the
\* entry.
C4_ReportedCodeDisplayed ==
  (dout.kind = "raise" /\ darg.msg \in CatalogMsgs)
    => dout.report[3] = darg.msg \o " (" \o ToString(darg.num) \o ")"

\* C5: error_query fails, and returns no pair, whenever the reply line does
\* not split into exactly two comma-separated fields or its first field is not
\* an integer.
C5_MalformedReplyFails ==
  \A t \in Threads :
    LET fields == split(strip(ret[t], WhiteSpace), ",")
    IN  (Done(t, "error_query") /\ (Len(fields) # 2 \/ ~int_ok(fields[1])))
          => outcome[t].kind = "raise" /\ rets[t] = <<>>

\* C6: for a non-zero code and a message equal to no catalog message the
\* decoder raises a StandardError whose report shows the raw message with the
\* reported code and has no detail text.
C6_UnknownMessageKept ==
  (dout # Pending /\ darg.num # 0 /\ darg.msg \notin CatalogMsgs)
    => /\ dout.kind = "raise"
       /\ dout.exc = "StandardError"
       /\ Len(dout.report) = 4
       /\ dout.report[3] = darg.msg \o " (" \o ToString(darg.num) \o ")"

C6_Witness ==
  /\ dout.kind = "raise"
  /\ darg.num = 5
  /\ darg.msg = "No error."

HasComma(toks) == \E i \in 1..Len(toks) : toks[i] = ","

C8_OwnResponse == \A t \in Threads : readFor[t] = t

\* C9: for a reply line of the form <int>,"<message>" with optional white
\* space at the start or end of the line, around the comma or just inside the
\* quotes, error_query returns the integer and the message without its quotes
\* and without leading or trailing white space.
C9_WireFormParsed ==
  \A t \in Threads : \A n \in WireCodes, m \in WireMsgs, f \in WireFlags :
    (Done(t, "error_query") /\ ret[t] = WireLine(n, m, f))
      => outcome[t] = Value(n, Join(m))

\* C10: zeroing called while the error queue holds an entry fails at its first
\* check, with the oldest entry's code, after the zero command was sent, and
\* takes exactly one entry from the queue; zeroing returns normally only if
\* the queue was empty when it was called.
C10_StaleEntryFailsZeroing ==
  \A t \in Threads :
    Done(t, "zeroing") =>
      /\ qAtCall[t] # <<>> =>
           /\ ZeroingFailedAtFirstCheck(t)
           /\ rets[t] = <<[num |-> Head(qAtCall[t]).num, msg |-> rets[t][1].msg]>>
           /\ Len(popped) - popAtCall[t] = 1
           /\ queue = Tail(qAtCall[t]) \o SubSeq(queue, Len(qAtCall[t]), Len(queue))
      /\ outcome[t].kind = "return" => qAtCall[t] = <<>>

C10_Witness ==
  /\ Done(1, "zeroing")
  /\ qAtCall[1] = <<ZeroError, FirmwareFault>>
  /\ outcome[1].kind = "raise"
  /\ rets[1][1].num = -231
  /\ Len(queue) = 2

====
